---- MODULE Spec2Model ----
(***************************************************************************)
(* Model of part_1_script.py: the World Bank life-expectancy report.       *)
(* main() downloads a table keyed by (entity, year), reshapes it with      *)
(* select / rename / unstack / swaplevel / sortlevel / dropna, reads the   *)
(* last year, calls plot_graph and exports the figure.                     *)
(*                                                                         *)
(* A table is a record [rows, cols, val]: rows and cols are the ordered    *)
(* row and column keys, val maps <<row, col>> to a measurement or NaN.     *)
(* A column key or a series selector is a tuple of strings: one element    *)
(* for a single-level key (a Python str), two for a two-level key.         *)
(***************************************************************************)
EXTENDS Integers, Sequences, FiniteSets, TLC

VARIABLES pc, err, steps, life_exp, life_exp_income, life_exp_income_clean,
          last_year, data, x_series, y_series, labels, title, colors, k,
          lines, fig, saved, inMain

vars == <<pc, err, steps, life_exp, life_exp_income, life_exp_income_clean,
          last_year, data, x_series, y_series, labels, title, colors, k,
          lines, fig, saved, inMain>>

(* ---------------- bounds ---------------- *)
MaxYears  == 3   \* years per raw table in Spec
MaxSeries == 9   \* longest selector list handed to plot_graph in SpecPlot
MaxLabels == 9   \* longest label list handed to plot_graph in SpecPlot
MaxSeed   == 2   \* variations of the measurements in SpecScenario

(* ---------------- program constants ---------------- *)
FirstYear     == 1960
ScenarioEnd   == 2017
LastDataYear  == 2015
NaN           == -1
NoYear        == 0

indicators    == <<"SP.DYN.LE00.MA.IN", "SP.DYN.LE00.FE.IN">>
income_groups == <<"Low income", "Lower middle income", "Upper middle income", "High income">>
Sexes         == {"Male", "Female"}

\* variant: the two labels exchanged
col_names_swapped(c) == IF c = "SP.DYN.LE00.MA.IN" THEN "Female"
                        ELSE IF c = "SP.DYN.LE00.FE.IN" THEN "Male" ELSE c

col_names(c)  == IF c = "SP.DYN.LE00.MA.IN" THEN "Male"
                 ELSE IF c = "SP.DYN.LE00.FE.IN" THEN "Female" ELSE c

series_data == << <<"Low income", "Female">>, <<"Low income", "Male">>,
                  <<"Lower middle income", "Female">>, <<"Lower middle income", "Male">>,
                  <<"Upper middle income", "Female">>, <<"Upper middle income", "Male">>,
                  <<"High income", "Female">>, <<"High income", "Male">> >>

series_labels == << "Low income economies (female)", "Low income economies (male)",
                    "Lower middle income economies (female)", "Lower middle income economies (male)",
                    "Upper middle income economies (female)", "Upper middle income economies (male)",
                    "High income economies (female)", "High income economies (male)" >>

color_map0 == << "#e41a1c", "#f4a582", "#377eb8", "#92c5de",
                 "#4daf4a", "#a6d96a", "#984ea3", "#c2a5cf" >>

(* ---------------- helpers ---------------- *)
Range(s) == {s[i] : i \in 1..Len(s)}
Min2(a, b) == IF a <= b THEN a ELSE b
MaxOf(S) == CHOOSE m \in S : \A n \in S : n <= m
MinOf(S) == CHOOSE m \in S : \A n \in S : m <= n

\* Python's ordering of the strings that occur as keys (code-point order).
StrOrder == << "Aruba", "Female", "High income", "Low income",
               "Lower middle income", "Male", "Upper middle income", "World" >>
StrRank(s) == CHOOSE i \in 1..Len(StrOrder) : StrOrder[i] = s

EmptyTable == [rows |-> <<>>, cols |-> <<>>, val |-> <<>>]

Cell(t, r, c) == t.val[<<r, c>>]

MkTable(rows, cols, f(_, _)) ==
    [rows |-> rows, cols |-> cols,
     val  |-> [p \in Range(rows) \X Range(cols) |-> f(p[1], p[2])]]

RECURSIVE SortedInts(_)
SortedInts(S) == IF S = {} THEN <<>>
                 ELSE LET m == MinOf(S) IN <<m>> \o SortedInts(S \ {m})

RECURSIVE SortedStrs(_)
SortedStrs(S) == IF S = {} THEN <<>>
                 ELSE LET m == CHOOSE x \in S : \A y \in S : StrRank(x) <= StrRank(y)
                      IN <<m>> \o SortedStrs(S \ {m})

\* cols1 x cols2 in row-major order: for each a of s1, every b of s2
Product(s1, s2) ==
    [i \in 1..(Len(s1) * Len(s2)) |->
        << s1[((i - 1) \div Len(s2)) + 1], s2[((i - 1) % Len(s2)) + 1] >>]

(* ---------------- the reshaping steps of main ---------------- *)
\* variant: no row is filtered out
SelectAll(t) == t

\* life_exp.select(lambda x: x[0] in income_groups)
Select(t) ==
    LET keep == SelectSeq(t.rows, LAMBDA r : r[1] \in Range(income_groups))
    IN MkTable(keep, t.cols, LAMBDA r, c : Cell(t, r, c))

\* .rename(columns=col_names): relabel the columns, cells stay where they are
Rename(t) ==
    LET newcols == [i \in 1..Len(t.cols) |-> col_names(t.cols[i])]
        old(c)  == CHOOSE o \in Range(t.cols) : col_names(o) = c
    IN MkTable(t.rows, newcols, LAMBDA r, c : Cell(t, r, old(c)))

\* .unstack(level=0): the entity level of the row key becomes the inner
\* column level; rows are the years in ascending order; a (entity, year)
\* pair with no row in t is filled with NaN
UnstackRows(t) == SortedInts({r[2] : r \in Range(t.rows)})

Unstack(t) ==
    LET ents == SortedStrs({r[1] : r \in Range(t.rows)})
    IN MkTable(UnstackRows(t), Product(t.cols, ents),
               LAMBDA y, c : IF <<c[2], y>> \in Range(t.rows)
                             THEN Cell(t, <<c[2], y>>, c[1]) ELSE NaN)

\* variant: the levels are left in place
KeepKey(c) == c

\* .swaplevel(0, 1, axis=1)
SwapKey(c) == <<c[2], c[1]>>

Swaplevel(t) ==
    LET newcols == [i \in 1..Len(t.cols) |-> SwapKey(t.cols[i])]
    IN MkTable(t.rows, newcols, LAMBDA r, c : Cell(t, r, SwapKey(c)))

\* .sortlevel(0, axis=1): columns in lexicographic order of their keys
ColLess(a, b) == \/ StrRank(a[1]) < StrRank(b[1])
                 \/ StrRank(a[1]) = StrRank(b[1]) /\ StrRank(a[2]) < StrRank(b[2])

RECURSIVE InsertCol(_, _)
InsertCol(c, s) == IF s = <<>> THEN <<c>>
                   ELSE IF ColLess(c, Head(s)) THEN <<c>> \o s
                   ELSE <<Head(s)>> \o InsertCol(c, Tail(s))

RECURSIVE SortCols(_)
SortCols(s) == IF s = <<>> THEN <<>>
               ELSE InsertCol(s[Len(s)], SortCols(SubSeq(s, 1, Len(s) - 1)))

Sortlevel(t) == MkTable(t.rows, SortCols(t.cols), LAMBDA r, c : Cell(t, r, c))

\* variant: how='any'
AnyNaN(t, r) == \E i \in 1..Len(t.cols) : Cell(t, r, t.cols[i]) = NaN

\* .dropna(how='all'): walk the rows, keep a row unless all its cells are NaN
AllNaN(t, r) == \A i \in 1..Len(t.cols) : Cell(t, r, t.cols[i]) = NaN

\* variant: only a last row that is all NaN is removed
TrimLastRow(t, i) ==
    IF t.rows # <<>> /\ AllNaN(t, t.rows[Len(t.rows)])
    THEN SubSeq(t.rows, 1, Len(t.rows) - 1) ELSE t.rows

RECURSIVE KeptRows(_, _)
KeptRows(t, i) == IF i > Len(t.rows) THEN <<>>
                  ELSE (IF AllNaN(t, t.rows[i]) THEN <<>> ELSE <<t.rows[i]>>)
                       \o KeptRows(t, i + 1)

DropNa(t) == MkTable(KeptRows(t, 1), t.cols, LAMBDA r, c : Cell(t, r, c))

\* variant: .head(1)
HeadItem(t) == IF Len(t.rows) = 0 THEN NoYear ELSE t.rows[1]

\* .tail(1).index.item(): the key of the last row; ValueError on no rows
TailItem(t) == IF Len(t.rows) = 0 THEN NoYear ELSE t.rows[Len(t.rows)]

(* ---------------- plot_graph ---------------- *)
\* A Python value that is either a list or None
PyList(s) == [isNone |-> FALSE, items |-> s]
PyNone    == [isNone |-> TRUE,  items |-> <<>>]

\* list.append(x) extends the list in place and returns None
ListAppendResult(lst, x) == PyNone

\* while len(y_series) > len(color_map): color_map = color_map.append(color_map)
\* len(None) raises TypeError
RECURSIVE PaletteLoop(_, _)
PaletteLoop(cm, n) ==
    IF cm.isNone THEN [raised |-> TRUE, map |-> <<>>]
    ELSE IF n > Len(cm.items) THEN PaletteLoop(ListAppendResult(cm, cm), n)
    ELSE [raised |-> FALSE, map |-> cm.items]

\* variant: color_map[-n:]
SliceFromEnd(s, n) == SubSeq(s, Len(s) - Min2(n, Len(s)) + 1, Len(s))

\* color_map[:n]
SliceTo(s, n) == SubSeq(s, 1, Min2(n, Len(s)))

\* variant: the last pair is left out
ZipLenShort(ys, ls, cs) ==
    LET m == Min2(Len(ys), Min2(Len(ls), Len(cs))) IN IF m > 0 THEN m - 1 ELSE 0

\* zip(y_series, labels, colors) stops at the shortest of the three
ZipLen(ys, ls, cs) == Min2(Len(ys), Min2(Len(ls), Len(cs)))

IsStr(s) == Len(s) = 1

ColumnSeries(t, c) == [i \in 1..Len(t.rows) |-> Cell(t, t.rows[i], c)]

\* data[s] for a str s, data[s[0]][s[1]] otherwise.  data[key] selects the
\* columns whose outer level is key (KeyError if there is none); on a
\* two-level table the result is the sub-frame of those columns keyed by the
\* inner level, and indexing that by s[1] selects one of its columns.
\* The result lists the series handed to ax.plot: matplotlib draws one line
\* per column of a frame.
OuterMatch(t, key) == SelectSeq(t.cols, LAMBDA c : c[1] = key)

Resolve(t, s) ==
    LET sub == OuterMatch(t, s[1])
    IN IF sub = <<>> THEN [ok |-> FALSE, series |-> <<>>]
       ELSE IF IsStr(s)
            THEN [ok |-> TRUE,
                  series |-> [i \in 1..Len(sub) |-> ColumnSeries(t, sub[i])]]
            ELSE LET hit == SelectSeq(sub, LAMBDA c : Len(c) = 2 /\ c[2] = s[2])
                 IN IF hit = <<>> THEN [ok |-> FALSE, series |-> <<>>]
                    ELSE [ok |-> TRUE, series |-> <<ColumnSeries(t, hit[1])>>]

NoFig == [open |-> FALSE, title |-> NoYear, legend |-> <<>>, suptitle |-> NoYear,
          texts |-> <<>>]

Raise(e) == /\ pc' = "aborted"
            /\ err' = e

\* lines 38-47: palette, colors, new figure and axes
PlotColors ==
    /\ pc = "colors"
    /\ LET cm == PaletteLoop(PyList(color_map0), Len(y_series))
       IN IF cm.raised
          THEN /\ Raise("TypeError")
               /\ UNCHANGED <<colors, fig>>
          ELSE /\ colors' = SliceTo(cm.map, Len(y_series))
               /\ fig' = [NoFig EXCEPT !.open = TRUE]
               /\ pc' = "lines"
               /\ err' = err
    /\ k' = 0
    /\ lines' = <<>>
    /\ UNCHANGED <<steps, life_exp, life_exp_income, life_exp_income_clean,
                   last_year, data, x_series, y_series, labels, title, saved, inMain>>

\* lines 48-54: one iteration of the for loop over zip(y_series, labels, colors)
PlotLine ==
    /\ pc = "lines"
    /\ k < ZipLen(y_series, labels, colors)
    /\ LET s == y_series[k + 1]
           r == Resolve(data, s)
       IN IF r.ok
          THEN /\ lines' = lines \o [i \in 1..Len(r.series) |->
                              [x |-> x_series, y |-> r.series[i],
                               label |-> labels[k + 1], color |-> colors[k + 1]]]
               /\ k' = k + 1
               /\ UNCHANGED <<pc, err>>
          ELSE /\ Raise("KeyError")
               /\ UNCHANGED <<lines, k>>
    /\ UNCHANGED <<steps, life_exp, life_exp_income, life_exp_income_clean,
                   last_year, data, x_series, y_series, labels, title, colors,
                   fig, saved, inMain>>

\* variant: plot_graph saves and closes the figure itself
PlotFinishExports ==
    /\ pc = "lines"
    /\ k = ZipLen(y_series, labels, colors)
    /\ fig' = [fig EXCEPT !.title = title, !.open = FALSE,
                          !.legend = [i \in 1..Len(lines) |-> lines[i].label]]
    /\ saved' = saved + 1
    /\ pc' = IF inMain THEN "suptitle" ELSE "returned"
    /\ steps' = Append(steps, "plot_graph")
    /\ UNCHANGED <<err, life_exp, life_exp_income, life_exp_income_clean,
                   last_year, data, x_series, y_series, labels, title, colors,
                   k, lines, inMain>>

\* lines 56-91: title, axis theme, legend, margins; the figure is returned
\* still open and unsaved
PlotFinish ==
    /\ pc = "lines"
    /\ k = ZipLen(y_series, labels, colors)
    /\ fig' = [fig EXCEPT !.title = title,
                          !.legend = [i \in 1..Len(lines) |-> lines[i].label]]
    /\ pc' = IF inMain THEN "suptitle" ELSE "returned"
    /\ steps' = Append(steps, "plot_graph")
    /\ UNCHANGED <<err, life_exp, life_exp_income, life_exp_income_clean,
                   last_year, data, x_series, y_series, labels, title, colors,
                   k, lines, saved, inMain>>

(* ---------------- main ---------------- *)
\* lines 96-97: the fetch either raises (no error handling) or returns the
\* table; the table that comes back is the one drawn in Init
Download ==
    /\ pc = "download"
    /\ \E ok \in BOOLEAN :
         IF ok THEN /\ pc' = "select"
                    /\ steps' = Append(steps, "download")
                    /\ err' = err
               ELSE /\ Raise("RemoteDataError")
                    /\ steps' = steps
    /\ UNCHANGED <<life_exp, life_exp_income, life_exp_income_clean, last_year,
                   data, x_series, y_series, labels, title, colors, k, lines,
                   fig, saved, inMain>>

\* lines 104-105
SelectStep ==
    /\ pc = "select"
    /\ life_exp_income' = Select(life_exp)
    /\ pc' = "unstack"
    /\ steps' = Append(steps, "select")
    /\ UNCHANGED <<err, life_exp, life_exp_income_clean, last_year, data,
                   x_series, y_series, labels, title, colors, k, lines, fig,
                   saved, inMain>>

\* lines 108-109
RenameUnstack ==
    /\ pc = "unstack"
    /\ life_exp_income' = Unstack(Rename(life_exp_income))
    /\ pc' = "swaplevel"
    /\ steps' = Append(steps, "unstack")
    /\ UNCHANGED <<err, life_exp, life_exp_income_clean, last_year, data,
                   x_series, y_series, labels, title, colors, k, lines, fig,
                   saved, inMain>>

\* line 114
SwaplevelStep ==
    /\ pc = "swaplevel"
    /\ life_exp_income' = Swaplevel(life_exp_income)
    /\ pc' = "sortlevel"
    /\ steps' = Append(steps, "swaplevel")
    /\ UNCHANGED <<err, life_exp, life_exp_income_clean, last_year, data,
                   x_series, y_series, labels, title, colors, k, lines, fig,
                   saved, inMain>>

\* line 115
SortlevelStep ==
    /\ pc = "sortlevel"
    /\ life_exp_income' = Sortlevel(life_exp_income)
    /\ pc' = "dropna"
    /\ steps' = Append(steps, "sortlevel")
    /\ UNCHANGED <<err, life_exp, life_exp_income_clean, last_year, data,
                   x_series, y_series, labels, title, colors, k, lines, fig,
                   saved, inMain>>

\* line 130
DropNaStep ==
    /\ pc = "dropna"
    /\ life_exp_income_clean' = DropNa(life_exp_income)
    /\ pc' = "last_year"
    /\ steps' = Append(steps, "dropna")
    /\ UNCHANGED <<err, life_exp, life_exp_income, last_year, data, x_series,
                   y_series, labels, title, colors, k, lines, fig, saved, inMain>>

\* lines 131-149: .item() on an empty index raises ValueError
LastYearStep ==
    /\ pc = "last_year"
    /\ IF Len(life_exp_income_clean.rows) = 0
       THEN /\ Raise("ValueError")
            /\ UNCHANGED <<last_year, steps>>
       ELSE /\ last_year' = TailItem(life_exp_income_clean)
            /\ pc' = "plot_graph"
            /\ steps' = Append(steps, "last_year")
            /\ err' = err
    /\ UNCHANGED <<life_exp, life_exp_income, life_exp_income_clean, data,
                   x_series, y_series, labels, title, colors, k, lines, fig,
                   saved, inMain>>

\* lines 153-165: the call of plot_graph with the eight series
CallPlot ==
    /\ pc = "plot_graph"
    /\ data' = life_exp_income_clean
    /\ x_series' = life_exp_income_clean.rows
    /\ y_series' = series_data
    /\ labels' = series_labels
    /\ title' = last_year
    /\ pc' = "colors"
    /\ UNCHANGED <<err, steps, life_exp, life_exp_income, life_exp_income_clean,
                   last_year, colors, k, lines, fig, saved, inMain>>

\* line 166
Suptitle ==
    /\ pc = "suptitle"
    /\ fig' = [fig EXCEPT !.suptitle = last_year]
    /\ pc' = "text_paragraph"
    /\ steps' = Append(steps, "suptitle")
    /\ UNCHANGED <<err, life_exp, life_exp_income, life_exp_income_clean,
                   last_year, data, x_series, y_series, labels, title, colors,
                   k, lines, saved, inMain>>

\* line 168
TextParagraph ==
    /\ pc = "text_paragraph"
    /\ fig' = [fig EXCEPT !.texts = Append(@, "paragraph")]
    /\ pc' = "text_source"
    /\ steps' = Append(steps, "text_paragraph")
    /\ UNCHANGED <<err, life_exp, life_exp_income, life_exp_income_clean,
                   last_year, data, x_series, y_series, labels, title, colors,
                   k, lines, saved, inMain>>

\* line 170
TextSource ==
    /\ pc = "text_source"
    /\ fig' = [fig EXCEPT !.texts = Append(@, "source")]
    /\ pc' = "savefig"
    /\ steps' = Append(steps, "text_source")
    /\ UNCHANGED <<err, life_exp, life_exp_income, life_exp_income_clean,
                   last_year, data, x_series, y_series, labels, title, colors,
                   k, lines, saved, inMain>>

\* line 172
SaveFig ==
    /\ pc = "savefig"
    /\ saved' = saved + 1
    /\ pc' = "close"
    /\ steps' = Append(steps, "savefig")
    /\ UNCHANGED <<err, life_exp, life_exp_income, life_exp_income_clean,
                   last_year, data, x_series, y_series, labels, title, colors,
                   k, lines, fig, inMain>>

\* lines 173-174
Close ==
    /\ pc = "close"
    /\ fig' = [fig EXCEPT !.open = FALSE]
    /\ pc' = "done"
    /\ steps' = Append(steps, "close")
    /\ UNCHANGED <<err, life_exp, life_exp_income, life_exp_income_clean,
                   last_year, data, x_series, y_series, labels, title, colors,
                   k, lines, saved, inMain>>

(* ---------------- the tables the data source can return ---------------- *)
\* A measurement that identifies its cell: no two cells carry the same one.
Measurement(e, y, c, seed) ==
    (IF c = indicators[1] THEN 1 ELSE 2) + 2 * StrRank(e)
      + 20 * (y - FirstYear) + 2000 * seed

\* What a year of the raw table looks like
Patterns == {"full", "groups_absent", "all_absent", "male_absent",
             "high_absent", "one_present", "upper_missing"}

IsGroup(e) == e \in Range(income_groups)

Absent(p, e, c) ==
    CASE p = "groups_absent" -> IsGroup(e)
      [] p = "all_absent"    -> TRUE
      [] p = "male_absent"   -> IsGroup(e) /\ c = indicators[1]
      [] p = "high_absent"   -> e = "High income"
      [] p = "one_present"   -> IsGroup(e) /\ ~(e = "Low income" /\ c = indicators[2])
      [] OTHER               -> FALSE

RowMissing(p, e) == p = "upper_missing" /\ e = "Upper middle income"

\* rows in the order of the response: entity by entity, the years of an
\* entity in ascending or descending order
RawTable(ents, first, n, desc, pat, seed) ==
    LET yrs  == [i \in 1..n |-> IF desc THEN first + n - i ELSE first + i - 1]
        rows == SelectSeq(Product(ents, yrs), LAMBDA r : ~RowMissing(pat[r[2]], r[1]))
    IN MkTable(rows, indicators,
               LAMBDA r, c : IF Absent(pat[r[2]], r[1], c) THEN NaN
                             ELSE Measurement(r[1], r[2], c, seed))

EntityChoices ==
    { <<"World", "Low income", "Lower middle income", "Upper middle income", "High income">>,
      income_groups,
      <<"World", "Lower middle income", "Upper middle income", "High income">> }

ScenarioEntities ==
    { income_groups,
      <<"World">> \o income_groups,
      <<"Aruba", "World">> \o income_groups }

Years == FirstYear..(FirstYear + MaxYears - 1)

InitMain(raw) ==
    /\ pc = "download"
    /\ err = "none"
    /\ steps = <<>>
    /\ life_exp = raw
    /\ life_exp_income = EmptyTable
    /\ life_exp_income_clean = EmptyTable
    /\ last_year = NoYear
    /\ data = EmptyTable
    /\ x_series = <<>>
    /\ y_series = <<>>
    /\ labels = <<>>
    /\ title = NoYear
    /\ colors = <<>>
    /\ k = 0
    /\ lines = <<>>
    /\ fig = NoFig
    /\ saved = 0
    /\ inMain = TRUE

Init ==
    \E ents \in EntityChoices, desc \in BOOLEAN, pat \in [Years -> Patterns] :
        InitMain(RawTable(ents, FirstYear, MaxYears, desc, pat, 0))

ScenarioPattern == [y \in FirstYear..ScenarioEnd |->
                      IF y > LastDataYear THEN "all_absent" ELSE "full"]

InitScenario ==
    \E ents \in ScenarioEntities, desc \in BOOLEAN, seed \in 0..MaxSeed :
        InitMain(RawTable(ents, FirstYear, ScenarioEnd - FirstYear + 1, desc,
                          ScenarioPattern, seed))

Next ==
    \/ Download
    \/ SelectStep
    \/ RenameUnstack
    \/ SwaplevelStep
    \/ SortlevelStep
    \/ DropNaStep
    \/ LastYearStep
    \/ CallPlot
    \/ PlotColors
    \/ PlotLine
    \/ PlotFinish
    \/ Suptitle
    \/ TextParagraph
    \/ TextSource
    \/ SaveFig
    \/ Close

Spec == Init /\ [][Next]_vars

SpecScenario == InitScenario /\ [][Next]_vars

(* ---------------- plot_graph called on its own ---------------- *)
Reshape(raw) == Sortlevel(Swaplevel(Unstack(Rename(Select(raw)))))

\* a clean two-level table, and a single-level table keyed by sex
PlotTwoLevel ==
    DropNa(Reshape(RawTable(<<"World">> \o income_groups, FirstYear, 3, TRUE,
                            [y \in FirstYear..(FirstYear + 2) |->
                               IF y = FirstYear + 1 THEN "male_absent"
                               ELSE IF y = FirstYear + 2 THEN "all_absent" ELSE "full"],
                            0)))

PlotFlat ==
    MkTable(<<FirstYear, FirstYear + 1>>, << <<"Male">>, <<"Female">> >>,
            LAMBDA y, c : Measurement("World", y,
                                      IF c[1] = "Male" THEN indicators[1] ELSE indicators[2], 0))

PlotTables == {PlotTwoLevel, PlotFlat}

\* the selectors of main, two single-level selectors, a selector with the
\* levels in the wrong order and a selector naming a whole income group
SelectorPool == series_data \o << <<"Male">>, <<"Female">>,
                                   <<"Female", "Low income">>, <<"Low income">> >>

Cyclic(pool, off, n) == [i \in 1..n |-> pool[((off + i - 1) % Len(pool)) + 1]]

InitPlot ==
    \E t \in PlotTables, off \in 0..(Len(SelectorPool) - 1),
       L \in 0..MaxSeries, M \in 0..MaxLabels, ttl \in {NoYear, LastDataYear} :
        /\ pc = "colors"
        /\ err = "none"
        /\ steps = <<>>
        /\ life_exp = EmptyTable
        /\ life_exp_income = EmptyTable
        /\ life_exp_income_clean = EmptyTable
        /\ last_year = NoYear
        /\ data = t
        /\ x_series = t.rows
        /\ y_series = Cyclic(SelectorPool, off, L)
        /\ labels = Cyclic(series_labels, 0, M)
        /\ title = ttl
        /\ colors = <<>>
        /\ k = 0
        /\ lines = <<>>
        /\ fig = NoFig
        /\ saved = 0
        /\ inMain = FALSE

NextPlot ==
    \/ PlotColors
    \/ PlotLine
    \/ PlotFinish

SpecPlot == InitPlot /\ [][NextPlot]_vars

(* ---------------- properties ---------------- *)
Done(step) == step \in Range(steps)

HasValue(t, r) == \E c \in Range(t.cols) : Cell(t, r, c) # NaN

Groups == Range(income_groups)

\* the sex label an indicator code stands for
SexLabel(c) == IF c = "SP.DYN.LE00.MA.IN" THEN "Male" ELSE "Female"

\* the positions of a table that hold the value v
Positions(t, v) == {p \in DOMAIN t.val : t.val[p] = v}

\* a selector names exactly one column of the table
ValidSelector(t, s) == s \in Range(t.cols)

\* the column s of the table, read cell by cell in row order
DirectLookup(t, s) == [i \in 1..Len(t.rows) |-> t.val[<<t.rows[i], s>>]]

\* C1: for every selector list of length L >= 1, the color step of
\* plot_graph completes without an error and assigns exactly L colors.
ColorAssignmentTotal ==
    (pc # "colors" /\ Len(y_series) >= 1)
        => (err # "TypeError" /\ Len(colors) = Len(y_series))

\* C2: in the scenario (four income groups among other entities, years
\* 1960..2017, rows 2016 and 2017 all absent and no other absent value) the
\* clean table has the rows 1960..2015 and 8 columns, and last_year is 2015.
ScenarioCleanTable ==
    /\ Done("dropna") =>
         /\ life_exp_income_clean.rows =
              [i \in 1..(LastDataYear - FirstYear + 1) |-> FirstYear + i - 1]
         /\ Len(life_exp_income_clean.cols) = 8
         /\ Cardinality(Range(life_exp_income_clean.cols)) = 8
    /\ (Done("dropna") /\ pc # "last_year") =>
         /\ Done("last_year")
         /\ last_year = LastDataYear

ScenarioReached ==
    /\ pc = "done"
    /\ \E r \in Range(life_exp.rows) : r[1] = "World" /\ r[2] = ScenarioEnd
    /\ Len(life_exp_income.rows) = ScenarioEnd - FirstYear + 1
    /\ last_year = LastDataYear

\* C3 as stated: every non-absent value of the raw table appears exactly
\* once in the reshaped table, in row year and column (entity, sex), and the
\* reshaped table holds no other non-absent value.
ReshapeBijectionAllRows ==
    Done("sortlevel") =>
      /\ \A r \in Range(life_exp.rows), c \in Range(life_exp.cols) :
           Cell(life_exp, r, c) # NaN =>
             /\ r[2] \in Range(life_exp_income.rows)
             /\ <<r[1], SexLabel(c)>> \in Range(life_exp_income.cols)
             /\ Cell(life_exp_income, r[2], <<r[1], SexLabel(c)>>) = Cell(life_exp, r, c)
             /\ Cardinality(Positions(life_exp_income, Cell(life_exp, r, c))) = 1
      /\ \A p \in DOMAIN life_exp_income.val :
           life_exp_income.val[p] # NaN =>
             \E r \in Range(life_exp.rows), c \in Range(life_exp.cols) :
                /\ p = <<r[2], <<r[1], SexLabel(c)>> >>
                /\ Cell(life_exp, r, c) = life_exp_income.val[p]

\* C3 amended: every non-absent value in an income-group row of the raw
\* table appears exactly once in the reshaped table, in row year and column
\* (income group, sex), and the reshaped table holds no other non-absent
\* value; the values in the rows of other entities do not appear.
ReshapeBijectionIncomeGroups ==
    Done("sortlevel") =>
      /\ \A r \in Range(life_exp.rows), c \in Range(life_exp.cols) :
           (Cell(life_exp, r, c) # NaN /\ r[1] \in Groups) =>
             /\ r[2] \in Range(life_exp_income.rows)
             /\ <<r[1], SexLabel(c)>> \in Range(life_exp_income.cols)
             /\ Cell(life_exp_income, r[2], <<r[1], SexLabel(c)>>) = Cell(life_exp, r, c)
             /\ Cardinality(Positions(life_exp_income, Cell(life_exp, r, c))) = 1
      /\ \A r \in Range(life_exp.rows), c \in Range(life_exp.cols) :
           (Cell(life_exp, r, c) # NaN /\ r[1] \notin Groups) =>
             Positions(life_exp_income, Cell(life_exp, r, c)) = {}
      /\ \A p \in DOMAIN life_exp_income.val :
           life_exp_income.val[p] # NaN =>
             \E r \in Range(life_exp.rows), c \in Range(life_exp.cols) :
                /\ r[1] \in Groups
                /\ p = <<r[2], <<r[1], SexLabel(c)>> >>
                /\ Cell(life_exp, r, c) = life_exp_income.val[p]

ReshapedWithOtherEntity ==
    /\ Done("sortlevel")
    /\ \E r \in Range(life_exp.rows) :
         r[1] = "World" /\ Cell(life_exp, r, indicators[1]) # NaN
    /\ \E r \in Range(life_exp.rows) :
         /\ r[1] \in Groups
         /\ Cell(life_exp, r, indicators[1]) = NaN
         /\ Cell(life_exp, r, indicators[2]) # NaN
    /\ \E p \in DOMAIN life_exp_income.val : life_exp_income.val[p] # NaN

\* C4 as stated: after the swap/sort step sex is the outer column level and
\* income group the inner, and the line drawn for selector (G, S) is the
\* column (S, G) of the clean table.
SelectorSexOuter ==
    /\ Done("sortlevel") =>
         \A c \in Range(life_exp_income.cols) : c[1] \in Sexes /\ c[2] \in Groups
    /\ (inMain /\ Done("last_year")) =>
         \A i \in 1..Len(lines) :
            /\ <<y_series[i][2], y_series[i][1]>> \in Range(life_exp_income_clean.cols)
            /\ lines[i].y = DirectLookup(life_exp_income_clean,
                                         <<y_series[i][2], y_series[i][1]>>)

\* C4 amended: after the swap/sort step income group is the outer column
\* level and sex the inner, and the line plot_graph draws for selector
\* (G, S) is the column (G, S) of the clean table.
SelectorGroupOuter ==
    /\ Done("sortlevel") =>
         \A c \in Range(life_exp_income.cols) : c[1] \in Groups /\ c[2] \in Sexes
    /\ (inMain /\ Done("last_year")) =>
         \A i \in 1..Len(lines) :
            /\ y_series[i][1] \in Groups /\ y_series[i][2] \in Sexes
            /\ y_series[i] \in Range(life_exp_income_clean.cols)
            /\ lines[i].y = DirectLookup(life_exp_income_clean, y_series[i])

SelectorsResolved ==
    /\ inMain
    /\ Done("plot_graph")
    /\ Len(lines) = 8
    /\ \E i \in 1..Len(lines) : \E j \in 1..Len(lines[i].y) : lines[i].y[j] = NaN
    /\ \E i \in 1..Len(lines) : \E j \in 1..Len(lines[i].y) : lines[i].y[j] # NaN

\* C5: last_year is the largest row key of the clean table (the clean table
\* is not empty when last_year has been computed).
LastYearIsMax ==
    Done("last_year") =>
       /\ life_exp_income_clean.rows # <<>>
       /\ last_year = MaxOf(Range(life_exp_income_clean.rows))

LastYearRead ==
    /\ Done("last_year")
    /\ Len(life_exp_income_clean.rows) >= 2
    /\ Len(life_exp_income_clean.rows) < Len(life_exp_income.rows)
    /\ life_exp.rows[1][2] > life_exp.rows[2][2]

\* C6: dropping the all-absent rows of the clean table changes nothing.
DropIdempotent ==
    Done("dropna") => DropNa(life_exp_income_clean) = life_exp_income_clean

DroppedTwoRows ==
    /\ Done("dropna")
    /\ life_exp_income_clean.rows # <<>>
    /\ Len(life_exp_income_clean.rows) + 2 <= Len(life_exp_income.rows)

\* C7: with L selectors and L labels, L <= 8, each selector naming a column
\* of the table, plot_graph draws exactly L lines; line i plots the column of
\* selector i, has label i as legend text and color i of the palette.
EqualLengthsDrawAll ==
    (/\ ~inMain
     /\ pc = "returned"
     /\ Len(y_series) = Len(labels)
     /\ Len(y_series) <= Len(color_map0)
     /\ \A i \in 1..Len(y_series) : ValidSelector(data, y_series[i]))
    => /\ Len(lines) = Len(y_series)
       /\ Len(fig.legend) = Len(y_series)
       /\ \A i \in 1..Len(y_series) :
            /\ lines[i].x = x_series
            /\ lines[i].y = DirectLookup(data, y_series[i])
            /\ lines[i].label = labels[i]
            /\ fig.legend[i] = labels[i]
            /\ lines[i].color = color_map0[i]

EightLinesDrawn ==
    /\ ~inMain
    /\ pc = "returned"
    /\ y_series = series_data
    /\ labels = series_labels
    /\ Len(lines) = 8

\* C8: the file is written at most once, and only after the fetch, the
\* reshape/clean steps, the render and the text overlays have completed in
\* that order; plot_graph leaves the figure open and unsaved; a run that
\* failed has written no file.
PipelineOrder == << "download", "select", "unstack", "swaplevel", "sortlevel",
                    "dropna", "last_year", "plot_graph", "suptitle",
                    "text_paragraph", "text_source" >>

ExportOnlyAfterPipeline ==
    /\ saved <= 1
    /\ saved = 1 =>
         /\ Len(steps) > Len(PipelineOrder)
         /\ SubSeq(steps, 1, Len(PipelineOrder)) = PipelineOrder
         /\ steps[Len(PipelineOrder) + 1] = "savefig"
         /\ err = "none"
    /\ pc \in {"colors", "lines", "suptitle"} => saved = 0
    /\ pc \in {"lines", "suptitle"} => fig.open
    /\ pc = "aborted" => (saved = 0 /\ err # "none")
    /\ err # "none" => pc = "aborted"

FileWritten ==
    /\ pc = "done"
    /\ saved = 1

\* C9: with selector and label lists of different lengths, both at most 8,
\* and the paired selectors naming columns of the table, plot_graph raises
\* no error and draws exactly min(len(selectors), len(labels)) lines, line i
\* pairing selector i with label i; the surplus entries are ignored.
MismatchTruncates ==
    (/\ ~inMain
     /\ Len(y_series) # Len(labels)
     /\ Len(y_series) <= Len(color_map0)
     /\ Len(labels) <= Len(color_map0)
     /\ \A i \in 1..Min2(Len(y_series), Len(labels)) : ValidSelector(data, y_series[i]))
    => /\ err = "none"
       /\ pc # "aborted"
       /\ pc = "returned" =>
            /\ Len(lines) = Min2(Len(y_series), Len(labels))
            /\ \A i \in 1..Len(lines) :
                 /\ lines[i].y = DirectLookup(data, y_series[i])
                 /\ lines[i].label = labels[i]

MismatchDrawn ==
    /\ ~inMain
    /\ pc = "returned"
    /\ Len(labels) >= 2
    /\ Len(y_series) > Len(labels)
    /\ Len(y_series) <= Len(color_map0)
    /\ Len(lines) = Len(labels)
    /\ ~ValidSelector(data, y_series[Len(y_series)])

\* C10: the clean table is the reshaped table restricted to the rows with
\* at least one non-absent value, wherever the all-absent rows lie; the kept
\* rows keep their order and their cells, absent ones included.
DropExactlyAllAbsent ==
    Done("dropna") =>
      /\ life_exp_income_clean.cols = life_exp_income.cols
      /\ life_exp_income_clean.rows =
           SelectSeq(life_exp_income.rows, LAMBDA r : HasValue(life_exp_income, r))
      /\ \A p \in DOMAIN life_exp_income_clean.val :
           life_exp_income_clean.val[p] = life_exp_income.val[p]

MiddleRowDropped ==
    /\ Done("dropna")
    /\ \E i, j, l \in 1..Len(life_exp_income.rows) :
         /\ i < j /\ j < l
         /\ HasValue(life_exp_income, life_exp_income.rows[i])
         /\ ~HasValue(life_exp_income, life_exp_income.rows[j])
         /\ HasValue(life_exp_income, life_exp_income.rows[l])
    /\ Len(life_exp_income_clean.rows) >= 2
    /\ \E p \in DOMAIN life_exp_income_clean.val : life_exp_income_clean.val[p] = NaN

====
